---- MODULE Spec2Model ----
(***************************************************************************)
(* X.509 certificate-chain utilities of crypto/x509/utils/src/lib.rs:      *)
(* the certificate iterator over a slice of PEM entries (iter_x509 /       *)
(* X509CertificateIter::next), the chain verifier (verify_chain) and the   *)
(* key extractor (mc_public_key).                                          *)
(*                                                                         *)
(* The caller modelled here is the one of the crate's tests: it holds a    *)
(* slice of PEM entries, collects iter_x509() into a vector, calls         *)
(* verify_chain on the vector and calls mc_public_key on a certificate.    *)
(* The x509_signature library is used as a capability: a certificate is    *)
(* the record of what the library reports about it.                        *)
(***************************************************************************)
EXTENDS Integers, Sequences, FiniteSets, TLC

(* ------------------------------------------------------------------ *)
(* Bounds of the model                                                 *)
(* ------------------------------------------------------------------ *)

\* Longest PEM slice handed to iter_x509().
MaxLen == 3

\* Largest value of the signed integer type the sampled seconds are cast to
\* (i64 at lib.rs:107), scaled down; the unsigned type of Duration::as_secs
\* (u64) has twice as many values.
I64Max == 3

\* Longest string handed to ResponderId::from_str.
MaxStrLen == 4

I64Min == (0 - I64Max) - 1
U64Max == 2 * I64Max + 1

\* x509_signature's ASN1Time accepts the timestamps MinASN1..MaxASN1, a range
\* strictly inside the signed type.
MaxASN1 == I64Max - 1
MinASN1 == 0 - MaxASN1

(* ------------------------------------------------------------------ *)
(* Values                                                              *)
(* ------------------------------------------------------------------ *)

\* Subject / issuer distinguished names.
Names == {"a", "b"}

\* Validity windows <<not_before, not_after>>, both ASN.1 times.
Windows == {<<0, 0>>, <<1, 1>>}

\* subject-public-key-info of the key each name holds.
SpkiOf(name) ==
    IF name = "b" THEN [alg |-> "Ed25519", key |-> "kb"]
                  ELSE [alg |-> "RSA", key |-> "ka"]

\* What x509_signature exposes of a parsed certificate: subject(), issuer(),
\* whether its signature verifies under the key of the name in issuer(),
\* not_before(), not_after() and subject_public_key_info().  The window of a
\* certificate whose signature does not verify is never looked at (the
\* linkage check comes first), so one window is enough for those.
Certs ==
    { c \in [subject : Names, issuer : Names, sigok : BOOLEAN,
             window : Windows, spki : {SpkiOf(n) : n \in Names}] :
        /\ c.spki = SpkiOf(c.subject)
        /\ (~c.sigok => c.window = <<0, 0>>) }

\* pem::Pem.contents: bytes that are the DER encoding of a certificate
\* (<<c>>) or bytes that are not (<<>>).
Der(c) == <<c>>
Garbage == <<>>
Contents == {Der(c) : c \in Certs} \cup {Garbage}
Pems == [contents : Contents]

\* Sequences of length at most n over S.
SeqUpTo(S, n) == UNION {[1..k -> S] : k \in 0..n}

\* std::time::SystemTime values, as whole seconds relative to UNIX_EPOCH.
\* A negative value is a clock set before the epoch.
ClockValues == (0 - 1)..U64Max

\* Option<T>
None == <<>>
Some(x) == <<x>>

\* Result<T, E>
Ok(v) == [tag |-> "Ok", val |-> v]
Err(e) == [tag |-> "Err", err |-> e]
Pending == [tag |-> "Pending"]
Panicked == [tag |-> "Panic"]
IsOk(r) == r.tag = "Ok"
IsErr(r) == r.tag = "Err"

(* ------------------------------------------------------------------ *)
(* x509_signature, std::time and mc_crypto_keys as used by the code    *)
(* ------------------------------------------------------------------ *)

\* x509_signature::parse_certificate(&pem.contents).ok()
parse_certificate(contents) ==
    IF Len(contents) = 1 THEN Some(contents[1]) ELSE None

\* cert.check_issued_by(issuer): the issuer name of cert is the subject name
\* of issuer and the signature of cert verifies under issuer's key.
check_issued_by(cert, issuer) ==
    IF cert.issuer # issuer.subject THEN Err("UnknownIssuer")
    ELSE IF ~cert.sigok THEN Err("InvalidSignatureForPublicKey")
    ELSE Ok("unit")

\* cert.check_self_issued()
check_self_issued(cert) == check_issued_by(cert, cert)

\* cert.valid_at_timestamp(t)
valid_at_timestamp(cert, t) ==
    IF t < cert.window[1] THEN Err("CertNotValidYet")
    ELSE IF t > cert.window[2] THEN Err("CertExpired")
    ELSE Ok("unit")

\* SystemTime::now().duration_since(SystemTime::UNIX_EPOCH)
duration_since_epoch(now) ==
    IF now < 0 THEN Err("SystemTimeError") ELSE Ok(now)

\* Duration::as_secs() as i64: the two's-complement reinterpretation.
as_i64(secs) == IF secs > I64Max THEN secs - (U64Max + 1) ELSE secs

\* ASN1Time::try_from(timestamp)
asn1time_try_from(t) ==
    IF t < MinASN1 \/ t > MaxASN1 THEN Err("BadDERTime") ELSE Ok(t)

\* Ed25519Public::try_from_der(spki)
ed25519_try_from_der(spki) ==
    IF spki.alg = "Ed25519" THEN Ok(spki.key) ELSE Err("AlgorithmMismatch")

(* ------------------------------------------------------------------ *)
(* ChainError and its conversions                                      *)
(* ------------------------------------------------------------------ *)

ChainErrorEmpty == [kind |-> "Empty"]
ChainErrorSystemTime == [kind |-> "SystemTime"]
ChainErrorX509(e) == [kind |-> "X509", src |-> e]

\* A variant of the conversion that keeps the clock error as a library
\* error instead of mapping it to SystemTime.
FromSystemTimeError_AsX509(src) == ChainErrorX509(src)

\* impl From<SystemTimeError> for ChainError
FromSystemTimeError(src) == ChainErrorSystemTime

\* impl From<X509Error> for ChainError
FromX509Error(src) == ChainErrorX509(src)

(* ------------------------------------------------------------------ *)
(* mc_public_key                                                       *)
(* ------------------------------------------------------------------ *)

\* Mutant of mc_public_key: every subject-public-key-info is taken for an
\* Ed25519 key.
mc_public_key_AnyAlgorithm(cert) ==
    Ok([type |-> "Ed25519", key |-> cert.spki.key])

\* lib.rs:141-149
mc_public_key(cert) ==
    LET r == ed25519_try_from_der(cert.spki) IN
    IF IsOk(r) THEN Ok([type |-> "Ed25519", key |-> r.val])
    ELSE Err("AlgorithmMismatch")

(* ------------------------------------------------------------------ *)
(* State                                                               *)
(* ------------------------------------------------------------------ *)

VARIABLES
    pems,        \* the caller's slice of PEM entries
    clock,       \* the wall clock (SystemTime::now())
    pc,          \* where the caller is
    offset,      \* X509CertificateIter.offset
    parsed,      \* 0-based indices of pem_slice handed to parse_certificate
    certs,       \* the vector being collected from the iterator
    runs,        \* calls of verify_chain started so far (the caller makes two)
    index,       \* verify_chain: enumerate() index of the loop
    previous,    \* verify_chain: Option<&X509Certificate>
    cert_count,  \* verify_chain: certificates which have passed validation
    timestamp,   \* verify_chain: the sampled seconds as i64
    reads,       \* clock values SystemTime::now() returned in this call
    links,       \* linkage checks made in this call: certificate and issuer
    stderr,      \* lines written by eprintln! in this call
    result,      \* what the current call of verify_chain returned
    first,       \* reads and result of the previous call of verify_chain
    keyCert,     \* the certificate mc_public_key was last called on
    key,         \* what mc_public_key returned
    iters,       \* the X509CertificateIter values the caller holds
    rid_src,     \* the &str handed to ResponderId::from_str
    rid_result,  \* what ResponderId::from_str returned
    rid_display  \* what Display::fmt wrote for the returned ResponderId

vars == <<pems, clock, pc, offset, parsed, certs, runs, index, previous,
          cert_count, timestamp, reads, links, stderr, result, first,
          keyCert, key, iters, rid_src, rid_result, rid_display>>

iterVars == <<offset, parsed, certs>>
callVars == <<index, previous, cert_count, timestamp, reads, links, stderr,
              result>>
keyVars == <<keyCert, key>>
ridVars == <<rid_src, rid_result, rid_display>>
chainVars == <<clock, pc, offset, parsed, certs, runs, index, previous,
               cert_count, timestamp, reads, links, stderr, result, first,
               keyCert, key>>

\* The names of the traversals the caller may hold at once.
IterIds == {"x", "y"}

\* A traversal the caller has not made yet.
NoIter == [made |-> FALSE, offset |-> 0, out |-> <<>>]

\* The caller has collected nothing, verified nothing and extracted no key.
InitChain ==
    /\ clock = 0
    /\ pc = "start"
    /\ offset = 0
    /\ parsed = <<>>
    /\ certs = <<>>
    /\ runs = 0
    /\ index = 0
    /\ previous = None
    /\ cert_count = 0
    /\ timestamp = 0
    /\ reads = <<>>
    /\ links = <<>>
    /\ stderr = <<>>
    /\ result = Pending
    /\ first = None
    /\ keyCert = None
    /\ key = Pending

Init ==
    /\ pems \in SeqUpTo(Pems, MaxLen)
    /\ InitChain
    /\ iters = [i \in IterIds |-> NoIter]
    /\ rid_src = <<>>
    /\ rid_result = Pending
    /\ rid_display = None

(* ------------------------------------------------------------------ *)
(* The iterator                                                        *)
(* ------------------------------------------------------------------ *)

\* iter_x509() -> X509CertificateIter::new(self): offset 0 over the slice.
iter_x509 ==
    /\ pc = "start"
    /\ offset' = 0
    /\ parsed' = <<>>
    /\ certs' = <<>>
    /\ pc' = "collect"
    /\ UNCHANGED <<pems, iters, ridVars, clock, runs, first>>
    /\ UNCHANGED callVars
    /\ UNCHANGED keyVars

\* A variant of next() that steps over an entry only when it parses: the
\* offset stays on an entry that does not.
IterNext_StaysOnFailure(off) ==
    IF off = Len(pems)
    THEN [offset |-> off, read |-> None, item |-> None]
    ELSE [offset |-> IF parse_certificate(pems[off + 1].contents) = None
                     THEN off ELSE off + 1,
          read |-> Some(off),
          item |-> parse_certificate(pems[off + 1].contents)]

\* X509CertificateIter::next on an iterator at offset off: the offset it
\* leaves and the Option it returns.
IterNext(off) ==
    IF off = Len(pems)
    THEN [offset |-> off, read |-> None, item |-> None]
    ELSE [offset |-> off + 1,
          read |-> Some((off + 1) - 1),
          item |-> parse_certificate(pems[((off + 1) - 1) + 1].contents)]

\* One round of collect::<Vec<X509Certificate>>(): it calls next(), pushes a
\* Some(cert) on the vector and returns the vector at the first None.
next ==
    /\ pc = "collect"
    /\ LET n == IterNext(offset) IN
         /\ offset' = n.offset
         /\ parsed' = parsed \o n.read
         /\ IF n.item = None
            THEN /\ certs' = certs
                 /\ pc' = "collected"
            ELSE /\ certs' = Append(certs, n.item[1])
                 /\ pc' = "collect"
    /\ UNCHANGED <<pems, iters, ridVars, clock, runs, first>>
    /\ UNCHANGED callVars
    /\ UNCHANGED keyVars

(* ------------------------------------------------------------------ *)
(* The wall clock                                                      *)
(* ------------------------------------------------------------------ *)

\* The clock is set by the environment.  verify_chain observes it only at
\* lib.rs:105, so a change is modelled where it can be observed: before the
\* first call starts and before each of its reads.
Tick ==
    /\ \/ pc = "collected" /\ runs = 0
       \/ pc = "clock" /\ runs = 1
    /\ \E t \in ClockValues \ {clock} : clock' = t
    /\ UNCHANGED <<pems, iters, ridVars, pc, runs, first>>
    /\ UNCHANGED iterVars
    /\ UNCHANGED callVars
    /\ UNCHANGED keyVars

\* During a later call the environment presents the clock values of the
\* call before it, read for read (a clock that does not move between two
\* calls is the case where those values are all equal).
Replay ==
    /\ pc = "clock"
    /\ runs > 1
    /\ Len(reads) < Len(first[1].reads)
    /\ clock # first[1].reads[Len(reads) + 1]
    /\ clock' = first[1].reads[Len(reads) + 1]
    /\ UNCHANGED <<pems, iters, ridVars, pc, runs, first>>
    /\ UNCHANGED iterVars
    /\ UNCHANGED callVars
    /\ UNCHANGED keyVars

(* ------------------------------------------------------------------ *)
(* verify_chain                                                        *)
(* ------------------------------------------------------------------ *)

\* The certificate the loop is at (0-based index into the slice).
CertAt(i) == certs[i + 1]

\* Mutant of VerifyEntry: the is_empty() test is missing, so the loop runs
\* over no certificate and Ok(cert_count) is returned.
VerifyEntry_NoEmptyCheck ==
    /\ pc = "collected"
    /\ runs' = runs + 1
    /\ first' = IF runs = 0 THEN None
                ELSE Some([reads |-> reads, result |-> result])
    /\ previous' = None
    /\ cert_count' = 0
    /\ index' = 0
    /\ timestamp' = 0
    /\ reads' = <<>>
    /\ links' = <<>>
    /\ stderr' = <<>>
    /\ IF Len(certs) = 0
       THEN /\ result' = Ok(0)
            /\ pc' = "done"
       ELSE /\ result' = Pending
            /\ pc' = "link"
    /\ UNCHANGED <<pems, iters, ridVars, clock>>
    /\ UNCHANGED iterVars
    /\ UNCHANGED keyVars

\* Mutant of VerifyEntry: previous outlives the call (a static instead of a
\* local), so a later call starts from the last certificate of the one before.
VerifyEntry_StalePrevious ==
    /\ pc = "collected"
    /\ runs' = runs + 1
    /\ first' = IF runs = 0 THEN None
                ELSE Some([reads |-> reads, result |-> result])
    /\ previous' = previous
    /\ cert_count' = 0
    /\ index' = 0
    /\ timestamp' = 0
    /\ reads' = <<>>
    /\ links' = <<>>
    /\ stderr' = <<>>
    /\ IF Len(certs) = 0
       THEN /\ result' = Err(ChainErrorEmpty)
            /\ pc' = "done"
       ELSE /\ result' = Pending
            /\ pc' = "link"
    /\ UNCHANGED <<pems, iters, ridVars, clock>>
    /\ UNCHANGED iterVars
    /\ UNCHANGED keyVars

\* lib.rs:90-95: the locals are initialised and an empty slice is refused.
VerifyEntry ==
    /\ pc = "collected"
    /\ runs' = runs + 1
    /\ first' = IF runs = 0 THEN None
                ELSE Some([reads |-> reads, result |-> result])
    /\ previous' = None
    /\ cert_count' = 0
    /\ index' = 0
    /\ timestamp' = 0
    /\ reads' = <<>>
    /\ links' = <<>>
    /\ stderr' = <<>>
    /\ IF Len(certs) = 0
       THEN /\ result' = Err(ChainErrorEmpty)
            /\ pc' = "done"
       ELSE /\ result' = Pending
            /\ pc' = "link"
    /\ UNCHANGED <<pems, iters, ridVars, clock>>
    /\ UNCHANGED iterVars
    /\ UNCHANGED keyVars

\* Mutant of LinkCheck: the first certificate is not checked at all.
LinkCheck_NoSelfCheck(cert, prev) ==
    IF prev # None THEN check_issued_by(cert, prev[1])
    ELSE Ok("unit")

\* Mutant of LinkCheck: any member of the slice may be the issuer.
LinkCheck_AnyMember(cert, prev) ==
    IF prev # None
    THEN IF \E j \in 1..Len(certs) : IsOk(check_issued_by(cert, certs[j]))
         THEN Ok("unit")
         ELSE check_issued_by(cert, prev[1])
    ELSE check_self_issued(cert)

\* Mutant of LinkCheck: every certificate is checked against the first one.
LinkCheck_AgainstRoot(cert, prev) ==
    IF prev # None THEN check_issued_by(cert, certs[1])
    ELSE check_self_issued(cert)

\* lib.rs:99-103: issued by the preceding certificate, or by itself if first.
LinkCheck(cert, prev) ==
    IF prev # None THEN check_issued_by(cert, prev[1])
    ELSE check_self_issued(cert)

\* A variant of CheckLink that notes a linkage error but goes on to the
\* clock read and the validity check of the same certificate.
CheckLink_NoShortCircuit ==
    /\ pc = "link"
    /\ LET r == LinkCheck(CertAt(index), previous) IN
         /\ links' = Append(links,
                           [cert |-> CertAt(index),
                            against |-> IF previous = None THEN CertAt(index)
                                        ELSE previous[1]])
         /\ result' = IF IsErr(r) THEN Err(FromX509Error(r.err)) ELSE result
         /\ pc' = "clock"
    /\ UNCHANGED <<pems, iters, ridVars, clock, runs, first, index, previous,
                   cert_count, timestamp, reads, stderr>>
    /\ UNCHANGED iterVars
    /\ UNCHANGED keyVars

CheckLink ==
    /\ pc = "link"
    /\ LET r == LinkCheck(CertAt(index), previous) IN
         /\ links' = Append(links,
                           [cert |-> CertAt(index),
                            against |-> IF previous = None THEN CertAt(index)
                                        ELSE previous[1]])
         /\ IF IsErr(r)
            THEN /\ result' = Err(FromX509Error(r.err))
                 /\ pc' = "done"
            ELSE /\ result' = result
                 /\ pc' = "clock"
    /\ UNCHANGED <<pems, iters, ridVars, clock, runs, first, index, previous, cert_count,
                   timestamp, reads, stderr>>
    /\ UNCHANGED iterVars
    /\ UNCHANGED keyVars

\* A variant of SampleClock that samples the clock once per call: the
\* first iteration reads it, the later ones reuse the timestamp.
SampleClock_OncePerCall ==
    /\ pc = "clock"
    /\ reads' = IF index = 0 THEN Append(reads, clock) ELSE reads
    /\ LET d == duration_since_epoch(clock) IN
       IF index = 0 /\ IsErr(d)
       THEN /\ result' = Err(FromSystemTimeError(d.err))
            /\ pc' = "done"
            /\ UNCHANGED <<timestamp, stderr>>
       ELSE /\ timestamp' = IF index = 0 THEN as_i64(d.val) ELSE timestamp
            /\ LET a == asn1time_try_from(timestamp') IN
               IF IsErr(a)
               THEN /\ result' = Panicked
                    /\ pc' = "done"
                    /\ stderr' = stderr
               ELSE /\ result' = result
                    /\ pc' = "valid"
                    /\ stderr' = Append(stderr,
                                   <<a.val, CertAt(index).window[1],
                                     CertAt(index).window[2]>>)
    /\ UNCHANGED <<pems, iters, ridVars, clock, runs, first, index, previous,
                   cert_count, links>>
    /\ UNCHANGED iterVars
    /\ UNCHANGED keyVars

\* A variant of SampleClock that reads the clock twice, once for the
\* diagnostic line and once for the validity check.
SampleClock_ReadsTwice ==
    /\ pc = "clock"
    /\ LET d == duration_since_epoch(clock) IN
       IF IsErr(d)
       THEN /\ reads' = Append(reads, clock)
            /\ result' = Err(FromSystemTimeError(d.err))
            /\ pc' = "done"
            /\ UNCHANGED <<timestamp, stderr>>
       ELSE /\ reads' = reads \o <<clock, clock>>
            /\ timestamp' = as_i64(d.val)
            /\ LET a == asn1time_try_from(timestamp') IN
               IF IsErr(a)
               THEN /\ result' = Panicked
                    /\ pc' = "done"
                    /\ stderr' = stderr
               ELSE /\ result' = result
                    /\ pc' = "valid"
                    /\ stderr' = Append(stderr,
                                   <<a.val, CertAt(index).window[1],
                                     CertAt(index).window[2]>>)
    /\ UNCHANGED <<pems, iters, ridVars, clock, runs, first, index, previous,
                   cert_count, links>>
    /\ UNCHANGED iterVars
    /\ UNCHANGED keyVars

\* lib.rs:105-113: the clock is read, converted to seconds since the epoch,
\* cast to i64 and printed with the certificate's window.
SampleClock ==
    /\ pc = "clock"
    /\ reads' = Append(reads, clock)
    /\ LET d == duration_since_epoch(clock) IN
       IF IsErr(d)
       THEN /\ result' = Err(FromSystemTimeError(d.err))
            /\ pc' = "done"
            /\ UNCHANGED <<timestamp, stderr>>
       ELSE /\ timestamp' = as_i64(d.val)
            /\ LET a == asn1time_try_from(timestamp') IN
               IF IsErr(a)
               THEN \* .expect("asn1 timestamp of now is incorrect")
                    /\ result' = Panicked
                    /\ pc' = "done"
                    /\ stderr' = stderr
               ELSE /\ result' = result
                    /\ pc' = "valid"
                    /\ stderr' = Append(stderr,
                                   <<a.val, CertAt(index).window[1],
                                     CertAt(index).window[2]>>)
    /\ UNCHANGED <<pems, iters, ridVars, clock, runs, first, index, previous, cert_count,
                   links>>
    /\ UNCHANGED iterVars
    /\ UNCHANGED keyVars

\* A variant of CheckValid that updates previous and cert_count before it
\* looks at the verdict of the validity check.
CheckValid_CountsFirst ==
    /\ pc = "valid"
    /\ previous' = Some(CertAt(index))
    /\ cert_count' = index + 1
    /\ LET r == valid_at_timestamp(CertAt(index), timestamp) IN
       IF IsErr(r)
       THEN /\ result' = Err(FromX509Error(r.err))
            /\ pc' = "done"
            /\ index' = index
       ELSE IF index + 1 < Len(certs)
            THEN /\ index' = index + 1
                 /\ result' = result
                 /\ pc' = "link"
            ELSE /\ index' = index
                 /\ result' = Ok(cert_count')
                 /\ pc' = "done"
    /\ UNCHANGED <<pems, iters, ridVars, clock, runs, first, timestamp, reads,
                   links, stderr>>
    /\ UNCHANGED iterVars
    /\ UNCHANGED keyVars

\* lib.rs:116-124: the validity check, the update of previous and cert_count,
\* and the end of the loop.
CheckValid ==
    /\ pc = "valid"
    /\ LET r == valid_at_timestamp(CertAt(index), timestamp) IN
       IF IsErr(r)
       THEN /\ result' = Err(FromX509Error(r.err))
            /\ pc' = "done"
            /\ UNCHANGED <<index, previous, cert_count>>
       ELSE /\ previous' = Some(CertAt(index))
            /\ cert_count' = index + 1
            /\ IF index + 1 < Len(certs)
               THEN /\ index' = index + 1
                    /\ result' = result
                    /\ pc' = "link"
               ELSE /\ index' = index
                    /\ result' = Ok(cert_count')
                    /\ pc' = "done"
    /\ UNCHANGED <<pems, iters, ridVars, clock, runs, first, timestamp, reads, links, stderr>>
    /\ UNCHANGED iterVars
    /\ UNCHANGED keyVars

\* The first call has returned; the caller calls verify_chain again on the
\* same vector.
Return ==
    /\ pc = "done"
    /\ runs = 1
    /\ keyCert = None
    /\ pc' = "collected"
    /\ UNCHANGED <<pems, iters, ridVars, clock, runs, first>>
    /\ UNCHANGED iterVars
    /\ UNCHANGED callVars
    /\ UNCHANGED keyVars

(* ------------------------------------------------------------------ *)
(* Key extraction                                                      *)
(* ------------------------------------------------------------------ *)

\* lib.rs:172-176: the caller extracts the key of the last collected
\* certificate, whatever verify_chain returned.
ExtractKey ==
    /\ pc = "done"
    /\ Len(certs) > 0
    /\ keyCert = None
    /\ keyCert' = Some(certs[Len(certs)])
    /\ key' = mc_public_key(certs[Len(certs)])
    /\ UNCHANGED <<pems, iters, ridVars, clock, pc, runs, first>>
    /\ UNCHANGED iterVars
    /\ UNCHANGED callVars

Next ==
    \/ iter_x509
    \/ next
    \/ Tick
    \/ Replay
    \/ VerifyEntry
    \/ CheckLink
    \/ SampleClock
    \/ CheckValid
    \/ Return
    \/ ExtractKey

Spec == Init /\ [][Next]_vars

(* ------------------------------------------------------------------ *)
(* Several traversals of the same slice                                *)
(* ------------------------------------------------------------------ *)

\* iter_x509() called for traversal i: X509CertificateIter::new borrows the
\* slice and starts at offset 0.  A traversal the caller already holds is
\* replaced by the new one.
NewIter(i) ==
    /\ iters' = [iters EXCEPT ![i] =
                    [made |-> TRUE, offset |-> 0, out |-> <<>>]]
    /\ UNCHANGED <<pems, ridVars, chainVars>>

\* A variant of StepIter in which the position is shared by the traversals
\* of a slice instead of being a field of each iterator.
StepIter_SharedOffset(i) ==
    /\ iters[i].made
    /\ Len(iters[i].out) <= Len(pems)
    /\ LET n == IterNext(iters[i].offset) IN
         iters' = [j \in IterIds |->
                     IF j = i
                     THEN [made |-> TRUE, offset |-> n.offset,
                           out |-> Append(iters[i].out, n.item)]
                     ELSE [iters[j] EXCEPT !.offset = n.offset]]
    /\ UNCHANGED <<pems, ridVars, chainVars>>

\* next() called on traversal i; out records what the calls returned.  The
\* caller stops one call after the traversal is exhausted.
StepIter(i) ==
    /\ iters[i].made
    /\ Len(iters[i].out) <= Len(pems)
    /\ LET n == IterNext(iters[i].offset) IN
         iters' = [iters EXCEPT ![i] =
                     [made |-> TRUE, offset |-> n.offset,
                      out |-> Append(iters[i].out, n.item)]]
    /\ UNCHANGED <<pems, ridVars, chainVars>>

NextIter ==
    \E i \in IterIds :
        \/ NewIter(i)
        \/ StepIter(i)

SpecIter == Init /\ [][NextIter]_vars

(* ------------------------------------------------------------------ *)
(* ResponderId (common/src/responder_id.rs)                            *)
(* ------------------------------------------------------------------ *)

\* The characters of the strings handed to from_str: a letter, a digit and
\* the colon.
Chars == {"h", "9", ":"}
Strs == SeqUpTo(Chars, MaxStrLen)

\* str::contains(ch)
contains(s, ch) == \E i \in 1..Len(s) : s[i] = ch

\* str::to_string: a new String with the characters of s.
to_string(s) == [i \in 1..Len(s) |-> s[i]]

\* pub struct ResponderId(pub String)
ResponderId(inner) == [inner |-> inner]

\* ResponderIdParseError::InvalidFormat(String)
InvalidFormat(string) == [kind |-> "InvalidFormat", string |-> string]

\* A variant of from_str that accepts a string only when it has one colon
\* and no more.
from_str_SingleColon(src) ==
    IF Cardinality({i \in 1..Len(src) : src[i] = ":"}) # 1
    THEN Err(InvalidFormat(to_string(src)))
    ELSE Ok(ResponderId(to_string(src)))

\* impl FromStr for ResponderId
from_str(src) ==
    IF ~contains(src, ":")
    THEN Err(InvalidFormat(to_string(src)))
    ELSE Ok(ResponderId(to_string(src)))

\* impl Display for ResponderId: write!(f, "{}", self.0)
fmt(rid) == [i \in 1..Len(rid.inner) |-> rid.inner[i]]

\* The caller parses the string it holds.
ParseResponderId ==
    /\ rid_result = Pending
    /\ rid_result' = from_str(rid_src)
    /\ UNCHANGED <<pems, iters, chainVars, rid_src, rid_display>>

\* The caller formats the ResponderId it got.
DisplayResponderId ==
    /\ IsOk(rid_result)
    /\ rid_display = None
    /\ rid_display' = Some(fmt(rid_result.val))
    /\ UNCHANGED <<pems, iters, chainVars, rid_src, rid_result>>

InitResponder ==
    /\ pems = <<>>
    /\ InitChain
    /\ iters = [i \in IterIds |-> NoIter]
    /\ rid_src \in Strs
    /\ rid_result = Pending
    /\ rid_display = None

NextResponder ==
    \/ ParseResponderId
    \/ DisplayResponderId

SpecResponder == InitResponder /\ [][NextResponder]_vars

(* ------------------------------------------------------------------ *)
(* Predicates used to state the properties                             *)
(* ------------------------------------------------------------------ *)

\* verify_chain has returned (or aborted).
Returned == pc = "done"

\* t lies in the validity window of c.
InWindow(c, t) == c.window[1] <= t /\ t <= c.window[2]

\* The first k certificates of ch are a linked path: the first self-issued,
\* each other one issued by the one before it.
LinkedPrefix(ch, k) ==
    /\ k >= 1
    /\ k <= Len(ch)
    /\ IsOk(check_self_issued(ch[1]))
    /\ \A i \in 2..k : IsOk(check_issued_by(ch[i], ch[i - 1]))

Linked(ch) == LinkedPrefix(ch, Len(ch))

\* The first k certificates of the vector are a linked path and each was
\* inside its window at the clock value read for it in this call.
PrefixPasses(k) ==
    /\ LinkedPrefix(certs, k)
    /\ Len(reads) >= k
    /\ \A i \in 1..k : InWindow(certs[i], reads[i])

\* The certificates the entries of ps encode, in input order.
ParseableCerts(ps) ==
    LET good == SelectSeq(ps, LAMBDA p : parse_certificate(p.contents) # None)
    IN  [i \in 1..Len(good) |-> parse_certificate(good[i].contents)[1]]

(* ------------------------------------------------------------------ *)
(* C1                                                                  *)
(* ------------------------------------------------------------------ *)

\* C1: for a non-empty chain of length n in which certificate 0 passes the
\* self-issued check, every later certificate passes the issued-by check
\* against its predecessor and every clock value read lies in the window of
\* the certificate it was read for, verify_chain returns Ok(n).
C1_ValidChainOk ==
    ( /\ Returned
      /\ Len(certs) > 0
      /\ Linked(certs)
      /\ \A i \in 1..Len(reads) : i <= Len(certs) /\ InWindow(certs[i], reads[i]) )
    => result = Ok(Len(certs))

\* A chain of three certificates with two different windows was verified.
C1_Witness ==
    /\ Returned
    /\ Len(certs) = 3
    /\ Linked(certs)
    /\ certs[1].window # certs[3].window
    /\ result = Ok(3)

(* ------------------------------------------------------------------ *)
(* C2                                                                  *)
(* ------------------------------------------------------------------ *)

\* C2: verify_chain never fails open.  Whenever it returns Ok(k), k is the
\* length of the chain, certificate 0 passed the self-issued check, every
\* certificate i>0 passed the issued-by check and that check was made against
\* certificate i-1, and every certificate was inside its window at the
\* timestamp sampled for it.
C2_NeverFailsOpen ==
    (Returned /\ IsOk(result)) =>
        /\ Len(certs) > 0
        /\ result.val = Len(certs)
        /\ Linked(certs)
        /\ Len(links) = Len(certs)
        /\ \A i \in 1..Len(certs) :
              /\ links[i].cert = certs[i]
              /\ links[i].against = IF i = 1 THEN certs[1] ELSE certs[i - 1]
        /\ Len(reads) = Len(certs)
        /\ \A i \in 1..Len(certs) :
              /\ IsOk(duration_since_epoch(reads[i]))
              /\ IsOk(valid_at_timestamp(certs[i], as_i64(reads[i])))

\* Ok was returned for a chain of three certificates.
C2_Witness ==
    /\ Returned
    /\ IsOk(result)
    /\ Len(certs) = 3
    /\ certs[3].issuer # certs[1].subject

(* ------------------------------------------------------------------ *)
(* C3                                                                  *)
(* ------------------------------------------------------------------ *)

\* C3: for the empty sequence verify_chain returns Err(ChainError::Empty)
\* without making a linkage check, reading the clock or printing, whatever
\* the clock shows.
C3_EmptyChain ==
    (Returned /\ Len(certs) = 0) =>
        /\ result = Err(ChainErrorEmpty)
        /\ reads = <<>>
        /\ links = <<>>
        /\ stderr = <<>>

\* The empty sequence was refused while the clock stood before the epoch.
C3_Witness ==
    /\ Returned
    /\ Len(certs) = 0
    /\ clock < 0
    /\ result = Err(ChainErrorEmpty)

(* ------------------------------------------------------------------ *)
(* C4                                                                  *)
(* ------------------------------------------------------------------ *)

\* Some certificate i>0 of the vector names an issuer other than the subject
\* of certificate i-1 (here i counts from 2, the vector being 1-based).
MisLinkedAt(i) ==
    /\ i \in 2..Len(certs)
    /\ certs[i].issuer # certs[i - 1].subject

\* C4 as stated: every sequence in which some certificate i>0 is not issued
\* by certificate i-1 fails with ChainError::X509(UnknownIssuer).  (Stated
\* for the sequences of certificates whose signatures verify under the
\* issuers they name, and for the calls that read ordinary times of day.)
C4_AnyMisLinkedIsUnknownIssuer ==
    ( /\ Returned
      /\ \A k \in 1..Len(reads) : reads[k] \in 0..MaxASN1
      /\ \A i \in 1..Len(certs) : certs[i].sigok
      /\ \E i \in 2..Len(certs) : MisLinkedAt(i) )
    => result = Err(ChainErrorX509("UnknownIssuer"))

\* C4 as amended: a sequence in which some certificate i>0 is not issued by
\* certificate i-1 never yields Ok; when every certificate before i passes
\* its linkage check and its validity check, the call fails at i with
\* ChainError::X509(UnknownIssuer), the check having been made against
\* certificate i-1 and no clock read having been made for i.  This is so
\* both when the issuer of i is another member and when it is absent.
C4_MisLinkedFails ==
    Returned =>
        \A i \in 2..Len(certs) :
            MisLinkedAt(i) =>
                /\ ~IsOk(result)
                /\ PrefixPasses(i - 1) =>
                      /\ result = Err(ChainErrorX509("UnknownIssuer"))
                      /\ Len(links) = i
                      /\ links[i].against = certs[i - 1]
                      /\ Len(reads) = i - 1

\* A tree given as a chain: the third certificate is issued by the first
\* one, not by the second, and the first two passed every check.
C4_Witness ==
    /\ Returned
    /\ Len(certs) = 3
    /\ MisLinkedAt(3)
    /\ IsOk(check_issued_by(certs[3], certs[1]))
    /\ PrefixPasses(2)
    /\ result = Err(ChainErrorX509("UnknownIssuer"))

(* ------------------------------------------------------------------ *)
(* C5                                                                  *)
(* ------------------------------------------------------------------ *)

\* C5: a chain whose first certificate names an issuer other than itself
\* (the root is missing) fails with ChainError::X509(UnknownIssuer) before
\* any clock read, whatever the later certificates and the clock are.
C5_MissingHead ==
    ( /\ Returned
      /\ Len(certs) > 0
      /\ certs[1].issuer # certs[1].subject )
    => /\ result = Err(ChainErrorX509("UnknownIssuer"))
       /\ reads = <<>>

\* The chain starts at an intermediate, every later certificate is issued by
\* its predecessor and all are inside their windows at the current clock.
C5_Witness ==
    /\ Returned
    /\ Len(certs) = 3
    /\ certs[1].issuer # certs[1].subject
    /\ \A i \in 2..3 : IsOk(check_issued_by(certs[i], certs[i - 1]))
    /\ \A i \in 1..3 : InWindow(certs[i], clock)
    /\ result = Err(ChainErrorX509("UnknownIssuer"))

(* ------------------------------------------------------------------ *)
(* C6                                                                  *)
(* ------------------------------------------------------------------ *)

\* C6 as stated, for the second counts that fit the signed type: in a chain
\* with a valid link structure, when the clock value read for a certificate
\* is before its not-before the call fails with X509(CertNotValidYet), and
\* when it is after its not-after the call fails with X509(CertExpired).
C6_OutsideWindowIsTypedError ==
    ( /\ Returned
      /\ Len(certs) > 0
      /\ Linked(certs)
      /\ Len(reads) > 0
      /\ reads[Len(reads)] >= 0
      /\ reads[Len(reads)] <= I64Max )
    => LET r == reads[Len(reads)]
           c == certs[Len(reads)]
       IN  /\ r < c.window[1] => result = Err(ChainErrorX509("CertNotValidYet"))
           /\ r > c.window[2] => result = Err(ChainErrorX509("CertExpired"))

(* ------------------------------------------------------------------ *)
(* C7                                                                  *)
(* ------------------------------------------------------------------ *)

\* collect() has returned the vector.
Collected == pc \notin {"start", "collect"}

\* C7 as stated: a full traversal of iter_x509(), as collect() makes it,
\* yields exactly the entries that parse as certificates, in input order
\* (an entry that does not parse is left out and every parseable entry after
\* it is still yielded).
C7_CollectYieldsAllParseable ==
    Collected => certs = ParseableCerts(pems)

(* ------------------------------------------------------------------ *)
(* C8                                                                  *)
(* ------------------------------------------------------------------ *)

\* C8 as stated: when the parseable entries of the bundle, in input order,
\* are a linked chain of length n whose windows all contain the clock value
\* every read of the call returned, collecting iter_x509() and calling
\* verify_chain never returns Ok(k) with k < n: a truncated prefix of the
\* bundle's certificates is never reported as a verified chain.
C8_BundleVerifiesWhole ==
    LET chain == ParseableCerts(pems) IN
    ( /\ Returned
      /\ Len(chain) > 0
      /\ Linked(chain)
      /\ \A k \in 1..Len(reads) : reads[k] = clock
      /\ \A i \in 1..Len(chain) : InWindow(chain[i], clock)
      /\ IsOk(result) )
    => result = Ok(Len(chain))

(* ------------------------------------------------------------------ *)
(* C9                                                                  *)
(* ------------------------------------------------------------------ *)

\* C9: mc_public_key returns PublicKeyType::Ed25519 with the key of the
\* subject-public-key-info when that is an Ed25519 key and
\* Err(KeyError::AlgorithmMismatch) for every other one; the call reads no
\* clock and leaves the state of chain verification alone.
C9_KeyExtraction ==
    /\ [](keyCert # None =>
            LET spki == keyCert[1].spki IN
            /\ spki.alg = "Ed25519" =>
                  key = Ok([type |-> "Ed25519", key |-> spki.key])
            /\ spki.alg # "Ed25519" => key = Err("AlgorithmMismatch"))
    /\ [][keyCert' # keyCert =>
            /\ keyCert' = Some(certs[Len(certs)])
            /\ UNCHANGED <<clock, reads, links, stderr, result, certs>>]_vars

\* An Ed25519 key was extracted from the last certificate of a chain that
\* failed verification.
C9_Witness ==
    /\ keyCert # None
    /\ keyCert[1].spki.alg = "Ed25519"
    /\ IsOk(key)
    /\ IsErr(result)

(* ------------------------------------------------------------------ *)
(* C10                                                                 *)
(* ------------------------------------------------------------------ *)

\* The second call was shown the clock values of the first: the values the
\* two calls read agree as far as both read.
SameClockValues ==
    \A k \in 1..Len(reads) :
        k <= Len(first[1].reads) => reads[k] = first[1].reads[k]

\* C10: two calls of verify_chain on the same vector that are shown the same
\* clock values make the same reads and return the same result.
C10_Deterministic ==
    ( /\ Returned
      /\ runs = 2
      /\ SameClockValues )
    => /\ result = first[1].result
       /\ reads = first[1].reads

\* The second call verified a chain of two certificates with the clock where
\* it stood throughout the first call, and returned Ok(2) as the first did.
C10_Witness ==
    /\ Returned
    /\ runs = 2
    /\ Len(certs) = 2
    /\ reads = first[1].reads
    /\ \A k \in 1..Len(reads) : reads[k] = clock
    /\ result = Ok(2)
    /\ result = first[1].result

(* ------------------------------------------------------------------ *)
(* C11                                                                 *)
(* ------------------------------------------------------------------ *)

\* The library verdict of the last linkage check the call made.
LastLinkVerdict ==
    check_issued_by(links[Len(links)].cert, links[Len(links)].against)

\* The call is over and the last clock read it made was before the epoch.
ClockFailed ==
    /\ Returned
    /\ Len(reads) > 0
    /\ IsErr(duration_since_epoch(reads[Len(reads)]))

\* The error value a returned failure carries is the one the failing step
\* produced: Empty for the empty vector, SystemTime for a clock error, and
\* otherwise X509 around the library error of the failing linkage or
\* validity check.
CarriesFailingStep(e) ==
    \/ /\ e = ChainErrorEmpty
       /\ certs = <<>>
    \/ /\ e = ChainErrorSystemTime
       /\ ClockFailed
    \/ /\ Len(links) > 0
       /\ Len(reads) < Len(links)
       /\ IsErr(LastLinkVerdict)
       /\ e = ChainErrorX509(LastLinkVerdict.err)
    \/ /\ Len(links) > 0
       /\ Len(reads) = Len(links)
       /\ ~ClockFailed
       /\ IsErr(valid_at_timestamp(CertAt(index), timestamp))
       /\ e = ChainErrorX509(valid_at_timestamp(CertAt(index), timestamp).err)

\* C11 as stated: every call of verify_chain that does not succeed ends with
\* exactly one of ChainError::Empty, ChainError::SystemTime or
\* ChainError::X509(e), e being the library error of the failing check; a
\* clock error is SystemTime.
C11_FailureIsChainError ==
    (Returned /\ ~IsOk(result))
    => /\ IsErr(result)
       /\ CarriesFailingStep(result.err)
       /\ ClockFailed => result.err = ChainErrorSystemTime

\* The part of C11 the code does keep: an error value that is returned is
\* the one of the failing step.
C11_ReturnedErrorIsCarried ==
    (Returned /\ IsErr(result))
    => /\ CarriesFailingStep(result.err)
       /\ ClockFailed => result.err = ChainErrorSystemTime

(* ------------------------------------------------------------------ *)
(* C12                                                                 *)
(* ------------------------------------------------------------------ *)

\* What a traversal yields up to its first None, as collect() gathers it.
Yielded(out) ==
    LET stop == {k \in 1..Len(out) : out[k] = None}
        n == IF stop = {} THEN Len(out)
             ELSE (CHOOSE k \in stop : \A m \in stop : k <= m) - 1
    IN  [k \in 1..n |-> out[k][1]]

\* The traversal has returned its first None.
Finished(it) == it.made /\ \E k \in 1..Len(it.out) : it.out[k] = None

\* This step is a call of iter_x509() for traversal i.
IsNewIter(i) == iters'[i] # iters[i] /\ iters'[i].out = <<>>

\* This step is a call of next() on traversal i.
IsStepIter(i) == iters'[i].out # iters[i].out /\ iters'[i].out # <<>>

\* C12: every call of iter_x509() returns a traversal at offset 0; a call of
\* next() on one traversal leaves every other traversal of the slice where
\* it was; the PEM slice is never modified; and two traversals of the same
\* slice yield the same items, call for call, so two full traversals yield
\* the same sequence.
C12_Restartable ==
    /\ [](\A i, j \in IterIds :
            /\ \A k \in 1..Len(iters[i].out) :
                  k <= Len(iters[j].out) => iters[i].out[k] = iters[j].out[k]
            /\ (Finished(iters[i]) /\ Finished(iters[j]))
               => Yielded(iters[i].out) = Yielded(iters[j].out))
    /\ [][ /\ pems' = pems
           /\ \A i \in IterIds :
                 /\ IsNewIter(i) => iters'[i].offset = 0
                 /\ IsStepIter(i) =>
                       \A j \in IterIds \ {i} : iters'[j] = iters[j] ]_vars

\* Two traversals of a slice that starts with two different certificates:
\* one has finished, the other stands after the first entry.
C12_Witness ==
    /\ Len(pems) >= 2
    /\ parse_certificate(pems[1].contents) # None
    /\ parse_certificate(pems[2].contents) # None
    /\ pems[1] # pems[2]
    /\ Finished(iters["x"])
    /\ Len(Yielded(iters["x"].out)) >= 2
    /\ iters["y"].made
    /\ iters["y"].offset = 1

(* ------------------------------------------------------------------ *)
(* C13                                                                 *)
(* ------------------------------------------------------------------ *)

\* C13: when the clock read made for a certificate reports a time before
\* the epoch, verify_chain returns Err(ChainError::SystemTime) as a value;
\* the certificate is not counted, and no linkage check, clock read or
\* diagnostic line follows for it or for a later certificate.
C13_ClockBeforeEpoch ==
    ClockFailed
    => /\ result = Err(ChainErrorSystemTime)
       /\ index = Len(reads) - 1
       /\ cert_count = index
       /\ previous = (IF index = 0 THEN None ELSE Some(certs[index]))
       /\ Len(links) = index + 1
       /\ Len(stderr) = index

\* The clock went before the epoch at the read for the second of three
\* certificates.
C13_Witness ==
    /\ ClockFailed
    /\ Len(certs) = 3
    /\ Len(reads) = 2
    /\ reads[1] >= 0
    /\ result = Err(ChainErrorSystemTime)

(* ------------------------------------------------------------------ *)
(* C14                                                                 *)
(* ------------------------------------------------------------------ *)

\* C14 as stated: apart from its clock reads verify_chain has no effect
\* outside its locals: the vector it was given is the vector it examines,
\* entry by entry, and nothing is written to an output stream.
C14_NoOutput ==
    /\ \A i \in 1..Len(links) : links[i].cert = certs[i]
    /\ stderr = <<>>

(* ------------------------------------------------------------------ *)
(* C15                                                                 *)
(* ------------------------------------------------------------------ *)

\* The number of colons in s.
Colons(s) == Cardinality({i \in 1..Len(s) : s[i] = ":"})

\* What from_str owes the caller for an accepted and for a rejected input.
RoundTrips ==
    /\ IsOk(rid_result) =>
          /\ rid_result.val.inner = rid_src
          /\ rid_display # None => rid_display[1] = rid_src
    /\ IsErr(rid_result) => rid_result.err = InvalidFormat(rid_src)

LinkVerdictAt(i) ==
    IF i = 1 THEN check_self_issued(certs[1])
    ELSE check_issued_by(certs[i], certs[i - 1])

\* C16: a call that does not succeed on a non-empty vector stopped at the
\* first failing step in the order linkage, clock read, validity, taken
\* certificate by certificate: every certificate before the one it stopped
\* at passed all its steps, a returned error is the linkage error if that
\* certificate fails its linkage check (whatever the clock says), else
\* SystemTime if its clock read failed, else its validity error, and no
\* linkage check or clock read was made after the failing step.
C16_ShortCircuitOrder ==
    (Returned /\ ~IsOk(result) /\ certs # <<>>)
    => LET i == index + 1 IN
       /\ i > 1 => PrefixPasses(i - 1)
       /\ Len(links) = i
       /\ \A k \in 1..i : links[k].cert = certs[k]
       /\ IF IsErr(LinkVerdictAt(i))
          THEN /\ result = Err(ChainErrorX509(LinkVerdictAt(i).err))
               /\ Len(reads) = i - 1
          ELSE /\ Len(reads) = i
               /\ IsErr(result) =>
                     IF IsErr(duration_since_epoch(reads[i]))
                     THEN result = Err(ChainErrorSystemTime)
                     ELSE LET v == valid_at_timestamp(certs[i], as_i64(reads[i]))
                          IN  /\ IsErr(v)
                              /\ result = Err(ChainErrorX509(v.err))

\* The second certificate of three fails its linkage check while the clock
\* is outside its window, and the third is not valid either: the linkage
\* error of the second is returned.
C16_Witness ==
    /\ Returned
    /\ Len(certs) = 3
    /\ index = 1
    /\ IsErr(LinkVerdictAt(2))
    /\ ~InWindow(certs[2], clock)
    /\ ~InWindow(certs[3], clock)
    /\ IsErr(LinkVerdictAt(3))
    /\ result = Err(ChainErrorX509(LinkVerdictAt(2).err))
    /\ Len(reads) = 1

(* ------------------------------------------------------------------ *)
(* C17                                                                 *)
(* ------------------------------------------------------------------ *)

\* C17: the clock is read once for each certificate that passed its linkage
\* check and never otherwise.  While the call runs, the reads made are one
\* per certificate before the current one, plus one when the current
\* certificate is past its clock read.  When the call is over: n reads for
\* a success on n certificates, none for the empty vector, i reads when
\* certificate i failed its linkage check, and i + 1 reads when the call
\* ended at the clock read, the diagnostic line or the validity check of
\* certificate i.
C17_ClockReads ==
    /\ pc \in {"link", "clock"} => Len(reads) = index
    /\ pc = "valid" => Len(reads) = index + 1
    /\ Returned =>
          /\ Len(reads) <= Len(certs)
          /\ IsOk(result) => Len(reads) = Len(certs)
          /\ certs = <<>> => Len(reads) = 0
          /\ (certs # <<>> /\ ~IsOk(result)) =>
                IF IsErr(LinkVerdictAt(index + 1))
                THEN Len(reads) = index
                ELSE Len(reads) = index + 1

\* The call ended at the time step of the last of three certificates, after
\* three reads.
C17_Witness ==
    /\ Returned
    /\ Len(certs) = 3
    /\ index = 2
    /\ ~IsOk(result)
    /\ IsOk(LinkVerdictAt(3))
    /\ Len(reads) = 3

(* ------------------------------------------------------------------ *)
(* C18                                                                 *)
(* ------------------------------------------------------------------ *)

\* C18: the timestamp a certificate is checked against is the clock value
\* read in its own iteration: at the validity check of certificate i the
\* timestamp is the i-th read of the call, and a call that succeeded found
\* each certificate valid at the value read for it, whatever was read for
\* the others.
C18_PerIterationClock ==
    /\ pc = "valid" =>
          /\ Len(reads) = index + 1
          /\ timestamp = as_i64(reads[index + 1])
    /\ (Returned /\ IsOk(result)) =>
          /\ Len(reads) = Len(certs)
          /\ \A i \in 1..Len(certs) :
                IsOk(valid_at_timestamp(certs[i], as_i64(reads[i])))

\* The validity windows of the two certificates of the chain share no
\* instant, the clock moved between the two iterations, and the call
\* returned Ok(2).
C18_Witness ==
    /\ Returned
    /\ Len(certs) = 2
    /\ result = Ok(2)
    /\ ~\E t \in ClockValues : InWindow(certs[1], t) /\ InWindow(certs[2], t)
    /\ reads[1] # reads[2]

(* ------------------------------------------------------------------ *)
(* C19                                                                 *)
(* ------------------------------------------------------------------ *)

\* The indices, counted from 0 as the loop counts them, of the
\* certificates that were verified in this call.
VerifiedIndices == {k \in 0..(Len(certs) - 1) : PrefixPasses(k + 1)}

\* The index of the last successfully verified certificate.
LastVerifiedIndex ==
    CHOOSE k \in VerifiedIndices : \A m \in VerifiedIndices : m <= k

\* The call is over and did not succeed.
Failed == Returned /\ ~IsOk(result)

\* While the call runs, previous and cert_count stand for the certificates
\* before the current one, which passed both checks; the current one is not
\* counted, not even between its linkage check and its validity check.
UpdatedAfterBothChecks ==
    pc \in {"link", "clock", "valid"}
    => /\ cert_count = index
       /\ previous = (IF index = 0 THEN None ELSE Some(certs[index]))
       /\ index > 0 => PrefixPasses(index)

\* C19 as stated: cert_count is the number of certificates when the call
\* succeeds, at a failure it is the index of the last successfully verified
\* certificate, and it is updated only after a certificate has passed both
\* checks.
C19_CountIsLastVerifiedIndex ==
    /\ (Returned /\ IsOk(result)) => cert_count = Len(certs)
    /\ (Failed /\ VerifiedIndices # {}) => cert_count = LastVerifiedIndex
    /\ UpdatedAfterBothChecks

\* C19 amended: cert_count is the number of certificates when the call
\* succeeds, at a failure it is the number of certificates verified before
\* the failing one (the index of the last verified one plus one, 0 when
\* there is none), and it is updated, with previous, only after a
\* certificate has passed both checks.
C19_CountIsNumberVerified ==
    /\ (Returned /\ IsOk(result)) =>
          /\ cert_count = Len(certs)
          /\ result = Ok(cert_count)
    /\ Failed =>
          /\ cert_count = Cardinality(VerifiedIndices)
          /\ VerifiedIndices # {} => cert_count = LastVerifiedIndex + 1
          /\ VerifiedIndices = {} => cert_count = 0
          /\ previous = (IF cert_count = 0 THEN None
                         ELSE Some(certs[cert_count]))
    /\ UpdatedAfterBothChecks

\* The call failed at the third certificate after verifying two.
C19_Witness ==
    /\ Failed
    /\ Len(certs) = 3
    /\ VerifiedIndices = {0, 1}
    /\ cert_count = 2

(* ------------------------------------------------------------------ *)
(* C20                                                                 *)
(* ------------------------------------------------------------------ *)

\* C20 as stated: for every non-empty vector and every value the clock can
\* report, a call of verify_chain that is over has returned Ok or a
\* ChainError value; no step of the loop aborts it.
C20_AlwaysReturns ==
    (Returned /\ certs # <<>>) => (IsOk(result) \/ IsErr(result))

(* ------------------------------------------------------------------ *)
(* C21                                                                 *)
(* ------------------------------------------------------------------ *)

\* The smaller of two numbers.
Min(a, b) == IF a <= b THEN a ELSE b

\* C21: the offset of every traversal is between 0 and the length of the
\* slice; after k calls of next() it is k, or the length once k has
\* reached it; the index a call reads is inside the slice; a call at an
\* offset below the length advances the offset by exactly one and returns
\* what parsing that entry gives, Some or None; a call at the length
\* returns None and leaves the traversal as it was.
C21_OffsetInBounds ==
    /\ [](\A i \in IterIds :
            /\ 0 <= iters[i].offset
            /\ iters[i].offset <= Len(pems)
            /\ iters[i].offset = Min(Len(iters[i].out), Len(pems))
            /\ LET n == IterNext(iters[i].offset) IN
                 n.read # None =>
                    /\ 0 <= n.read[1]
                    /\ n.read[1] < Len(pems))
    /\ [][ \A i \in IterIds :
             IsStepIter(i) =>
               LET off == iters[i].offset
                   ret == iters'[i].out[Len(iters'[i].out)]
               IN  /\ Len(iters'[i].out) = Len(iters[i].out) + 1
                   /\ iters'[i].made = iters[i].made
                   /\ IF off < Len(pems)
                      THEN /\ iters'[i].offset = off + 1
                           /\ ret = parse_certificate(pems[off + 1].contents)
                      ELSE /\ iters'[i].offset = off
                           /\ ret = None ]_vars

\* A traversal of a slice whose first entry does not parse and whose second
\* does was stepped past both, reached the end, and was called once more.
C21_Witness ==
    /\ Len(pems) >= 2
    /\ parse_certificate(pems[1].contents) = None
    /\ parse_certificate(pems[2].contents) # None
    /\ iters["x"].made
    /\ iters["x"].offset = Len(pems)
    /\ Len(iters["x"].out) = Len(pems) + 1
    /\ iters["x"].out[1] = None
    /\ iters["x"].out[2] # None
    /\ iters["x"].out[Len(pems) + 1] = None

====
